---- MODULE Spec2Model ----
(***************************************************************************)
(* Model of the classification pipeline of llm_classifier:                 *)
(*   classifier.py  classify_text, process_single_input, classify_inputs   *)
(*   validators.py  get_placeholders, get_json                             *)
(*   parser.py      get_model_from_json, get_gemini_schema                 *)
(*   database.py    ClassificationInput / ClassificationResponse tables    *)
(*   downloader.py  Downloader, download_data                              *)
(* Tasks are asyncio coroutines on one event loop: a task only yields at   *)
(* an await that really suspends (the provider call, the retry backoff),   *)
(* so every action below is the code that runs between two suspensions.    *)
(***************************************************************************)
EXTENDS Integers, Sequences, FiniteSets, TLC

\* ---------------------------------------------------------------- bounds
MaxBatch == 2       \* longest id list handed to one run
MaxRuns  == 2       \* runs (gather joins / classify_inputs calls) per behaviour
MaxTemplateLen == 3 \* most segments of a template text
MaxFields == 2      \* most fields of a result schema
MaxMedia == 2       \* most attachments of one provider call

\* ------------------------------------------------------ program constants
MaxAttempts  == 3   \* stop_after_attempt(3)
DefaultLimit == 1   \* os.getenv("CONCURRENCY_LIMIT", 1)

\* ------------------------------------------------------------ input sets
StoredIds  == {1, 2}                     \* ids of the ClassificationInput rows
MissingIds == {3}                        \* ids no row has
RecordIds  == StoredIds \cup MissingIds
Limits     == {DefaultLimit, 2}          \* CONCURRENCY_LIMIT values tried
Vals       == {"a", "b"}                 \* field values of a parsed response
RateLimit  == "RateLimitError"
Errors     == {RateLimit, "Exception"}   \* what acompletion may raise
Malformed  == "Malformed"                \* content get_model_from_json rejects

\* What the provider does on the 1st, 2nd, 3rd attempt of one classify_text call.
Scripts ==
    {<<v, v, v>> : v \in Vals}
      \cup {<<RateLimit, RateLimit, "a">>,
            <<RateLimit, RateLimit, RateLimit>>,
            <<"Exception", "a", "a">>,
            <<Malformed, "a", "a">>}

BatchLists == UNION {[1..n -> RecordIds] : n \in 1..MaxBatch}

\* ------------------------------------------------------ get_placeholders
\* A template is the list re.findall(r'\{(\w+)\}', ...) extracts from it.
ModelFieldOrder ==
    <<"title", "body", "user_id", "post_id", "id", "processed_date", "input_type_id">>
ModelFields    == {ModelFieldOrder[i] : i \in DOMAIN ModelFieldOrder}
IsRequired(f)  == f \in {"title", "body"}
InternalFields == {"id", "input_id", "classification_input"}

Templates == {<<"body", "title", "user_id">>, <<"title", "author">>, <<"title">>}

SeqFilter(s, Keep(_)) ==
    LET F[i \in 0..Len(s)] ==
            IF i = 0 THEN <<>>
            ELSE IF Keep(s[i]) THEN Append(F[i - 1], s[i]) ELSE F[i - 1]
    IN F[Len(s)]

InSeq(x, s) == \E i \in DOMAIN s : s[i] = x

\* A model class as get_placeholders sees it: model.model_fields in
\* declaration order, each field with field.is_required().
ClassificationInputModel ==
    [i \in DOMAIN ModelFieldOrder |->
        [name |-> ModelFieldOrder[i], required |-> IsRequired(ModelFieldOrder[i])]]

\* invalid_placeholders[0] / missing_required[0].
LastOf(s)  == s[Len(s)]
FirstOf(s) == s[1]

\* The required fields of the model that are not SQLModel internals (lines 50-55).
RequiredFieldsUnfiltered(model) ==
    LET Req(f) == f.required
        kept   == SeqFilter(model, Req)
    IN [i \in DOMAIN kept |-> kept[i].name]
RequiredFields(model) ==
    LET Req(f) == f.required /\ f.name \notin InternalFields
        kept   == SeqFilter(model, Req)
    IN [i \in DOMAIN kept |-> kept[i].name]

\* Lines 41-62 of get_placeholders, on the placeholders found in the template.
validate_placeholders(placeholders, model) ==
    LET names          == {model[i].name : i \in DOMAIN model}
        NotField(col)  == col \notin names
        invalid        == SeqFilter(placeholders, NotField)
        Missing(name)  == ~InSeq(name, placeholders)
        missing        == SeqFilter(RequiredFields(model), Missing)
    IN IF invalid # <<>> THEN [raised |-> TRUE, col |-> FirstOf(invalid), value |-> <<>>]
       ELSE IF missing # <<>> THEN [raised |-> TRUE, col |-> FirstOf(missing), value |-> <<>>]
       ELSE [raised |-> FALSE, col |-> "", value |-> placeholders]

\* get_placeholders(template, ClassificationInput) as process_single_input calls it.
get_placeholders(tpl) == validate_placeholders(tpl, ClassificationInputModel)

\* A template text is a sequence of segments, literal text or a {name} token;
\* re.findall(r'\{(\w+)\}', text) lists the names of the tokens, in order.
findallUnique(text) ==
    LET F[i \in 0..Len(text)] ==
            IF i = 0 THEN <<>>
            ELSE IF text[i].token /\ ~InSeq(text[i].name, F[i - 1])
                 THEN Append(F[i - 1], text[i].name) ELSE F[i - 1]
    IN F[Len(text)]
findall(text) ==
    LET IsToken(seg) == seg.token
        tokens       == SeqFilter(text, IsToken)
    IN [i \in DOMAIN tokens |-> tokens[i].name]

\* get_placeholders(prompt_template, model) on a template text.
get_placeholders_of(text, model) == validate_placeholders(findall(text), model)

\* ---------------------------------------------------------- classify_text
\* should_retry_error: only a RateLimitError is retried.
should_retry_error(exc) == exc = RateLimit

\* "except Exception" of classify_text: every exception raised in the body
\* (provider errors and parse errors alike) is caught.
CaughtNothing(exc) == FALSE
CaughtExceptRateLimit(exc) == exc # RateLimit
Caught(exc) == TRUE

\* get_model_from_json on the provider's content.
ParseRaises(outcome) == outcome = Malformed

\* One execution of the body of classify_text for a provider outcome:
\* what the decorated function hands to tenacity.
AttemptResult(outcome) ==
    LET exc == IF outcome \in Errors THEN outcome
               ELSE IF ParseRaises(outcome) THEN "ValidationError"
               ELSE "none"
    IN IF exc = "none" THEN [kind |-> "return", val |-> outcome]
       ELSE IF Caught(exc) THEN [kind |-> "return", val |-> "None"]
       ELSE [kind |-> "raise", val |-> exc]

\* tenacity's @retry around the body, after attempt number n.
RetryDecision(res, n) ==
    IF res.kind = "return" THEN [kind |-> "return", val |-> res.val]
    ELSE IF ~should_retry_error(res.val) THEN [kind |-> "raise", val |-> res.val]
    ELSE IF n >= MaxAttempts THEN [kind |-> "raise", val |-> "RetryError"]
    ELSE [kind |-> "retry", val |-> res.val]

\* asyncio.Semaphore(get_concurrency_limit()) and its acquire / release.
NewSemaphoreEmpty(n) == 0
NewSemaphore(n) == n
CanAcquire(s)   == s > 0      \* acquire returns at once, otherwise it waits
Acquire(s)      == s - 1
ReleaseNever(s) == s
Release(s)      == s + 1

\* ---------------------------------------------------------------- storage
\* select(ClassificationResponse).where(input_id == id): the matching rows.
RowsFor(rs, id) == {k \in DOMAIN rs : rs[k].input_id = id}

\* input.classification_response = ClassificationResponse(**result.model_dump());
\* session.add(input); session.commit(): a new row that references the input.
InsertOnly(rs, id, val) == <<[input_id |-> id, val |-> val]>>
InsertDetached(rs, id, val) == Append(rs, [input_id |-> 0, val |-> val])
Insert(rs, id, val) == Append(rs, [input_id |-> id, val |-> val])

\* Lines 107-118 of process_single_input: the existence check, then the insert.
PersistUnchecked(rs, id, val) == Insert(rs, id, val)
PersistOverwrite(rs, id, val) ==
    IF RowsFor(rs, id) = {} THEN Insert(rs, id, val)
    ELSE [k \in DOMAIN rs |->
            IF rs[k].input_id = id THEN [input_id |-> id, val |-> val] ELSE rs[k]]
Persist(rs, id, val) ==
    IF RowsFor(rs, id) = {} THEN Insert(rs, id, val) ELSE rs

\* session.delete(input); session.commit().  The relationship
\* classification_response is a scalar one with cascade_delete=True: the
\* response it loads (the first row that references the input) is deleted
\* with the input.
DeleteNoCascade(rs, id) == rs
CascadeDelete(rs, id) ==
    IF RowsFor(rs, id) = {} THEN rs
    ELSE LET r == CHOOSE k \in RowsFor(rs, id) : \A j \in RowsFor(rs, id) : k <= j
         IN [k \in 1..(Len(rs) - 1) |-> IF k < r THEN rs[k] ELSE rs[k + 1]]

\* Whether process_single_input can be suspended between the existence check
\* and the insert: lines 108-118 hold no await, the session is synchronous.
AwaitsAfterCheck == TRUE
AwaitsBetweenCheckAndInsert == FALSE

\* ------------------------------------------------------------------ state
VARIABLES
    inputs,     \* ids of the ClassificationInput rows
    responses,  \* the ClassificationResponse table, in insertion order
    template,   \* the prompt template of the behaviour
    limit,      \* CONCURRENCY_LIMIT
    phase,      \* "idle" | "running" | "returned"
    mode,       \* "gather" (asyncio.gather of the units) | "sequential" (classify_inputs)
    runs,       \* runs started so far
    task,       \* the per-record units of the current run
    escaped,    \* an exception left the current run's entry point
    first,      \* per record id, the first value classify_text returned for it
    call,       \* the last application of a pure function: name, arguments, result
    session     \* the SQLAlchemy session: "active" | "needs_rollback"

vars == <<inputs, responses, template, limit, phase, mode, runs, task, escaped, first, call,
          session>>

NoCall == [fn |-> "none"]

Tasks == DOMAIN task

NewTask(id) ==
    [id |-> id, script |-> <<>>, pc |-> "new", attempts |-> 0, sem |-> -1,
     cres |-> "pending", ended |-> "no", commit |-> "none"]

Init ==
    /\ inputs = StoredIds
    /\ responses = <<>>
    /\ template \in Templates
    /\ limit \in Limits
    /\ phase = "idle"
    /\ mode = "sequential"
    /\ runs = 0
    /\ task = <<>>
    /\ escaped = FALSE
    /\ first = [i \in RecordIds |-> "none"]
    /\ call = NoCall
    /\ session = "active"

\* A run starts: main.py gathers one process_single_input per id, or
\* classify_inputs loops over the ids.
StartRun(m, ids) ==
    /\ phase # "running"
    /\ runs < MaxRuns
    /\ phase' = "running"
    /\ mode' = m
    /\ runs' = runs + 1
    /\ task' = [k \in DOMAIN ids |-> NewTask(ids[k])]
    /\ escaped' = FALSE
    /\ UNCHANGED <<inputs, responses, template, limit, first, call, session>>

StartGather == \E ids \in BatchLists : StartRun("gather", ids)

StartSequential == \E ids \in BatchLists : StartRun("sequential", ids)

\* classify_inputs awaits each unit before it starts the next one; the units
\* asyncio.gather schedules start in list order, each running to its first
\* suspension before the next one starts.
MayBegin(t) ==
    IF mode = "sequential"
    THEN \A u \in Tasks : u < t => task[u].pc = "done"
    ELSE \A u \in Tasks : u < t => task[u].pc # "new"

\* An exception leaving process_single_input: classify_inputs catches it in
\* its loop, asyncio.gather hands it to the awaiting caller.
PropagatesAlways(m) == TRUE
Propagates(m) == m = "gather"

\* A session whose flush failed raises PendingRollbackError on every
\* statement until session.rollback() is called.
Usable(ses) == ses = "active"

\* process_single_input from its first line to the first suspension:
\* load, get_placeholders, render, then classify_text up to the provider call.
Begin(t) ==
    /\ phase = "running"
    /\ task[t].pc = "new"
    /\ MayBegin(t)
    /\ IF \/ ~Usable(session)
          \/ task[t].id \notin inputs
          \/ get_placeholders(template).raised
       THEN /\ task' = [task EXCEPT ![t].pc = "done", ![t].ended = "raised"]
            /\ escaped' = (escaped \/ Propagates(mode))
       ELSE /\ CanAcquire(NewSemaphore(limit))
            /\ \E script \in Scripts :
                 task' = [task EXCEPT ![t].pc = "calling", ![t].script = script,
                                      ![t].attempts = 1,
                                      ![t].sem = Acquire(NewSemaphore(limit))]
            /\ escaped' = escaped
    /\ UNCHANGED <<inputs, responses, template, limit, phase, mode, runs, first, call, session>>

\* The state of the session after the flush inside session.commit() raised
\* and no session.rollback() followed.
AfterFailedCommit == "needs_rollback"

\* The event loop resumes unit t where it is suspended.  At the provider
\* call: the call returns or raises, the slot is released, the content is
\* parsed, tenacity decides, and process_single_input runs on to its end
\* (or to its next suspension).
ResumeWith(t, commit_ok) ==
    /\ phase = "running"
    /\ task[t].pc \in {"calling", "checked"}
    /\ LET id == task[t].id
       IN IF task[t].pc = "checked"
          THEN /\ task' = [task EXCEPT ![t].pc = "done", ![t].ended = "returned"]
               /\ responses' = Insert(responses, id, task[t].cres)
               /\ UNCHANGED <<first, session>>
          ELSE LET outcome == task[t].script[task[t].attempts]
                   d == RetryDecision(AttemptResult(outcome), task[t].attempts)
               IN IF d.kind = "retry"
                  THEN /\ task' = [task EXCEPT ![t].attempts = @ + 1,
                                               ![t].sem = Acquire(NewSemaphore(limit))]
                       /\ UNCHANGED <<responses, first, session>>
                  ELSE IF d.kind = "raise"
                  THEN /\ task' = [task EXCEPT ![t].pc = "done", ![t].sem = Release(@),
                                               ![t].cres = "raised",
                                               ![t].ended = "returned"]
                       /\ UNCHANGED <<responses, first, session>>
                  ELSE IF d.val = "None"
                  THEN /\ task' = [task EXCEPT ![t].pc = "done", ![t].sem = Release(@),
                                               ![t].cres = "None",
                                               ![t].ended = "returned"]
                       /\ UNCHANGED <<responses, first, session>>
                  ELSE /\ first' = [first EXCEPT ![id] = IF @ = "none" THEN d.val ELSE @]
                       /\ IF ~Usable(session)
                          THEN \* the existence check raises, line 119 catches it
                               /\ task' = [task EXCEPT ![t].pc = "done",
                                                       ![t].sem = Release(@),
                                                       ![t].cres = d.val,
                                                       ![t].ended = "returned"]
                               /\ UNCHANGED <<responses, session>>
                          ELSE IF AwaitsBetweenCheckAndInsert /\ RowsFor(responses, id) = {}
                          THEN /\ task' = [task EXCEPT ![t].pc = "checked",
                                                       ![t].sem = Release(@),
                                                       ![t].cres = d.val]
                               /\ UNCHANGED <<responses, session>>
                          ELSE LET after == Persist(responses, id, d.val)
                                   how   == IF after # responses /\ ~commit_ok
                                            THEN "raised" ELSE "none"
                               IN /\ task' = [task EXCEPT ![t].pc = "done",
                                                          ![t].sem = Release(@),
                                                          ![t].cres = d.val,
                                                          ![t].ended = "returned",
                                                          ![t].commit = how]
                                  /\ IF how = "raised"
                                     THEN responses' = responses /\ session' = AfterFailedCommit
                                     ELSE responses' = after /\ session' = session
    /\ UNCHANGED <<inputs, template, limit, phase, mode, runs, escaped, call>>

\* session.commit() succeeds.
Resume(t) == ResumeWith(t, TRUE)

\* session.commit() raises from its flush (the database refuses the INSERT):
\* the except of line 119 catches it, nothing calls session.rollback().
ResumeCommitFails(t) ==
    /\ ResumeWith(t, FALSE)
    /\ session' # session

\* Every unit is finished: gather's join completes / classify_inputs returns.
Join ==
    /\ phase = "running"
    /\ \A t \in Tasks : task[t].pc = "done"
    /\ phase' = "returned"
    /\ UNCHANGED <<inputs, responses, template, limit, mode, runs, task, escaped, first, call,
                   session>>

Next ==
    \/ StartGather
    \/ StartSequential
    \/ \E t \in Tasks : Begin(t)
    \/ \E t \in Tasks : Resume(t)
    \/ Join

Spec == Init /\ [][Next]_vars

\* classify_inputs alone, with the scheduling its event loop gives: a unit
\* that can run is run, a provider call returns, the loop of process_all ends.
NextSequential ==
    \/ StartSequential
    \/ \E t \in Tasks : Begin(t)
    \/ \E t \in Tasks : Resume(t)
    \/ Join

SpecSequentialFair ==
    /\ Init /\ [][NextSequential]_vars
    /\ WF_vars(\E t \in Tasks : Begin(t))
    /\ WF_vars(\E t \in Tasks : Resume(t))
    /\ WF_vars(Join)

\* A ClassificationInput is deleted, between two runs (nothing in the
\* repository deletes a record while a batch is running).
DeleteInput ==
    /\ phase # "running"
    /\ \E i \in inputs :
          /\ inputs' = inputs \ {i}
          /\ responses' = CascadeDelete(responses, i)
    /\ UNCHANGED <<template, limit, phase, mode, runs, task, escaped, first, call, session>>

NextDelete ==
    \/ StartSequential
    \/ \E t \in Tasks : Begin(t)
    \/ \E t \in Tasks : Resume(t)
    \/ Join
    \/ DeleteInput

SpecDelete == Init /\ [][NextDelete]_vars

\* classify_inputs with a database that may refuse a commit.
NextFaults ==
    \/ StartSequential
    \/ \E t \in Tasks : Begin(t)
    \/ \E t \in Tasks : Resume(t)
    \/ \E t \in Tasks : ResumeCommitFails(t)
    \/ Join

SpecFaults == Init /\ [][NextFaults]_vars

\* ------------------------------------------------- the pure functions
\* get_placeholders, get_gemini_schema, get_json and get_model_from_json,
\* each applied to inputs drawn from the sets below; the pipeline stands still.
pipeline ==
    <<inputs, responses, template, limit, phase, mode, runs, task, escaped, first, session>>

TextSeg  == [token |-> FALSE, name |-> "text"]
Tok(n)   == [token |-> TRUE, name |-> n]
PlaceholderNames == {"title", "body", "user_id", "id", "author", "editor"}
Segments == {TextSeg} \cup {Tok(n) : n \in PlaceholderNames}
TemplateTexts == UNION {[1..n -> Segments] : n \in 0..MaxTemplateLen}

\* Model classes handed to get_placeholders: one whose fields are all
\* required, one with a required primary key, and ClassificationInput.
TwoRequiredModel ==
    <<[name |-> "title", required |-> TRUE], [name |-> "body", required |-> TRUE]>>
KeyedModel ==
    <<[name |-> "id", required |-> TRUE], [name |-> "title", required |-> TRUE],
      [name |-> "user_id", required |-> FALSE]>>
InputModels == {TwoRequiredModel, KeyedModel, ClassificationInputModel}

\* A function is applied when no call is outstanding, and then returns.
Idle == call.fn = "none"

Return ==
    /\ ~Idle
    /\ call' = NoCall
    /\ UNCHANGED pipeline

ApplyGetPlaceholders ==
    /\ Idle
    /\ \E text \in TemplateTexts, model \in InputModels :
          call' = [fn |-> "get_placeholders", arg |-> [text |-> text, model |-> model],
                   out |-> get_placeholders_of(text, model)]
    /\ UNCHANGED pipeline

\* ---- get_gemini_schema
\* A result schema is a model class: an ordered list of field declarations.
\* ty "other" is an annotation with no JSON type of its own (an enum or a
\* nested model, a "$ref" in the JSON schema); a field without a default is
\* required.
FieldTypes  == {"string", "integer", "boolean", "other"}
SchemaNames == {"id", "input_id", "score", "reason"}
FieldDecls  ==
    [name : SchemaNames, ty : FieldTypes, optional : BOOLEAN, default : BOOLEAN]
ResultSchemas ==
    {m \in UNION {[1..n -> FieldDecls] : n \in 0..MaxFields} :
        \A i, j \in DOMAIN m : i # j => m[i].name # m[j].name}

\* One member of an anyOf list, or a whole field entry: has_type says
\* whether the dict holds the key "type".
Typed(ty) == [has_type |-> TRUE, type |-> ty]
Untyped   == [has_type |-> FALSE, type |-> ""]
InnerInfo(ty) == IF ty = "other" THEN Untyped ELSE Typed(ty)

\* model_class.model_json_schema(): properties in field order, required = the
\* fields without a default.
field_schema(d) ==
    IF d.optional
    THEN [kind |-> "anyOf", type |-> "", anyOf |-> <<InnerInfo(d.ty), Typed("null")>>]
    ELSE IF d.ty = "other"
         THEN [kind |-> "ref", type |-> "", anyOf |-> <<>>]
         ELSE [kind |-> "type", type |-> d.ty, anyOf |-> <<>>]

model_json_schema(m) ==
    [properties |-> [i \in DOMAIN m |-> [name |-> m[i].name, info |-> field_schema(m[i])]],
     required   |-> LET RECURSIVE req(_)
                        req(i) == IF i > Len(m) THEN <<>>
                                  ELSE (IF m[i].default THEN <<>> ELSE <<m[i].name>>) \o req(i + 1)
                    IN req(1)]

\* t["type"] on a dict without that key raises KeyError.
MemberType(t) == [raised |-> ~t.has_type, type |-> t.type]

get_type_info(info) ==
    IF info.kind = "type" THEN [raised |-> FALSE, type |-> info.type]
    ELSE IF info.kind = "anyOf"
    THEN IF \E i \in DOMAIN info.anyOf : MemberType(info.anyOf[i]).raised
         THEN [raised |-> TRUE, type |-> "KeyError"]
         ELSE LET non_null_types ==
                      SelectSeq([i \in DOMAIN info.anyOf |-> MemberType(info.anyOf[i]).type],
                                LAMBDA t : t # "null")
              IN IF non_null_types # <<>>
                 THEN [raised |-> FALSE, type |-> non_null_types[1]]
                 ELSE [raised |-> FALSE, type |-> "string"]
    ELSE [raised |-> FALSE, type |-> "string"]

get_gemini_schema(m) ==
    LET schema == model_json_schema(m)
        kept   == SelectSeq(schema.properties, LAMBDA p : p.name \notin InternalFields)
        properties == [i \in DOMAIN kept |->
                          [name |-> kept[i].name, type |-> get_type_info(kept[i].info).type]]
    IN IF \E i \in DOMAIN kept : get_type_info(kept[i].info).raised
       THEN [raised |-> TRUE, type |-> "KeyError", properties |-> <<>>, required |-> <<>>]
       ELSE [raised |-> FALSE, type |-> "object", properties |-> properties,
             required |-> SelectSeq(schema.required, LAMBDA f : f \notin InternalFields)]

ApplyGetGeminiSchema ==
    /\ Idle
    /\ \E m \in ResultSchemas :
          call' = [fn |-> "get_gemini_schema", arg |-> m, out |-> get_gemini_schema(m)]
    /\ UNCHANGED pipeline

\* ---- get_json
\* JSON values of a document: a string, a string of digits, an integer, null.
JVals ==
    {[t |-> "string", v |-> "x"], [t |-> "string", v |-> "7"],
     [t |-> "integer", v |-> "7"], [t |-> "null", v |-> ""]}
DocKeys == {"id", "score", "reason"}
\* A JSON object: a mapping from some keys to values.
Docs == UNION {[K -> JVals] : K \in SUBSET DocKeys}

\* The content string, cut into pieces: a ``` fence, a run of whitespace, a
\* word, a quote character (w is "dq" or "sq"), prose, and the text of a
\* JSON object (o is the object it denotes).
Piece(k, w) == [k |-> k, w |-> w, o |-> <<>>]
Fence   == Piece("fence", "")
WS      == Piece("ws", "")
Prose   == Piece("text", "")
Quote(q) == Piece("quote", q)
Word(w)  == Piece("word", w)
DocText(doc) == [k |-> "doc", w |-> "", o |-> doc]
JsonWords  == {"json", "JSON", "Json"}
OtherWords == {"python"}
QuoteChars == {"dq", "sq"}

\* re.IGNORECASE
SameCase(w) == w
Lower(w) == IF w \in JsonWords THEN "json" ELSE w

SubSeqOrEmpty(s, a, b) == IF a > b THEN <<>> ELSE SubSeq(s, a, b)
\* The index of the first piece at or after i that is not of a kind in
\* kinds (Len(s) + 1 if none), and of the last one at or before i (0 if none).
RECURSIVE SkipFwd(_, _, _)
SkipFwd(s, i, kinds) ==
    IF i <= Len(s) /\ s[i].k \in kinds THEN SkipFwd(s, i + 1, kinds) ELSE i
RECURSIVE SkipBack(_, _, _)
SkipBack(s, i, kinds) ==
    IF i >= 1 /\ s[i].k \in kinds THEN SkipBack(s, i - 1, kinds) ELSE i
\* str.strip(): every leading and trailing piece of the given kinds goes.
Strip(s, kinds) == SubSeqOrEmpty(s, SkipFwd(s, 1, kinds), SkipBack(s, Len(s), kinds))
\* \s* in the pattern
SkipNothing(s, i) == i
SkipWS(s, i) == SkipFwd(s, i, {"ws"})

\* json.loads: whitespace around the value is allowed; the text of an object
\* parses to the object, a double-quoted run of prose to a string, anything
\* else raises JSONDecodeError.
JSONDecodeError == [raised |-> TRUE, t |-> "JSONDecodeError", o |-> <<>>]
json_loads(s) ==
    LET v == Strip(s, {"ws"})
    IN IF Len(v) = 1 /\ v[1].k = "doc"
       THEN [raised |-> FALSE, t |-> "object", o |-> v[1].o]
       ELSE IF /\ Len(v) = 3 /\ v[1].k = "quote" /\ v[2].k = "text" /\ v[3].k = "quote"
               /\ v[1].w = "dq" /\ v[3].w = "dq"
            THEN [raised |-> FALSE, t |-> "string", o |-> <<>>]
            ELSE JSONDecodeError

\* re.search(r'```\s*json\s*(.*?)\s*```', DOTALL | IGNORECASE): the match that
\* starts at piece i, as the index of the json word and of the closing fence.
WordAt(s, i)   == SkipWS(s, i + 1)
CloseAt(s, i)  == SkipFwd(s, WordAt(s, i) + 1, {"ws", "word", "quote", "text", "doc"})
MatchesAt(s, i) ==
    /\ s[i].k = "fence"
    /\ WordAt(s, i) <= Len(s)
    /\ s[WordAt(s, i)].k = "word" /\ Lower(s[WordAt(s, i)].w) = "json"
    /\ CloseAt(s, i) <= Len(s)

get_json(content) ==
    LET starts == {i \in DOMAIN content : MatchesAt(content, i)}
    IN IF starts # {}
       THEN LET i == CHOOSE x \in starts : \A y \in starts : x <= y
                group == SubSeqOrEmpty(content, WordAt(content, i) + 1, CloseAt(content, i) - 1)
            IN json_loads(Strip(group, {"ws"}))
       ELSE json_loads(Strip(Strip(content, {"ws"}), {"quote"}))

\* The ways a document reaches get_json.
Forms ==
    {"bare", "bare_padded", "fence", "fence_tight", "fence_space", "fence_prose",
     "fence_plain", "fence_open", "quoted", "quoted_twice", "prose"}
Wrap(form, w, q, doc) ==
    LET D == <<DocText(doc)>> IN
    CASE form = "bare"         -> D
      [] form = "bare_padded"  -> <<WS>> \o D \o <<WS>>
      [] form = "fence"        -> <<Fence, Word(w), WS>> \o D \o <<WS, Fence>>
      [] form = "fence_tight"  -> <<Fence, Word(w)>> \o D \o <<Fence>>
      [] form = "fence_space"  -> <<Fence, WS, Word(w), WS>> \o D \o <<WS, Fence>>
      [] form = "fence_prose"  -> <<Prose, WS, Fence, Word(w), WS>> \o D \o <<WS, Fence, WS, Prose>>
      [] form = "fence_plain"  -> <<Fence, WS>> \o D \o <<WS, Fence>>
      [] form = "fence_open"   -> <<Fence, Word(w), WS>> \o D
      [] form = "quoted"       -> <<Quote(q)>> \o D \o <<Quote(q)>>
      [] form = "quoted_twice" -> <<Quote("dq"), Quote(q)>> \o D \o <<Quote(q), Quote("dq")>>
      [] form = "prose"        -> <<Prose, WS, Prose>>

ApplyGetJson ==
    /\ Idle
    /\ \E form \in Forms, w \in JsonWords \cup OtherWords, q \in QuoteChars :
          \E doc \in {d \in Docs : Cardinality(DOMAIN d) <= MaxFields} :
             call' = [fn |-> "get_json",
                      arg |-> [form |-> form, word |-> w, doc |-> doc,
                               content |-> Wrap(form, w, q, doc)],
                      out |-> get_json(Wrap(form, w, q, doc))]
    /\ UNCHANGED pipeline

\* ---- get_model_from_json
\* Schemas built from str, int, Optional[str] and Optional[int] fields; a
\* default, where there is one, is None.
RoundTripSchemas ==
    {m \in ResultSchemas :
        \A i \in DOMAIN m : /\ m[i].ty \in {"string", "integer"}
                            /\ m[i].name \in DocKeys
                            /\ m[i].default => m[i].optional}

JNull   == [t |-> "null", v |-> ""]
Invalid == [t |-> "error", v |-> ""]
IsDigits(v) == v \in {"7"}

\* pydantic's validation of one value against one field, in its default
\* (lax) mode: null only for an Optional field, a str field takes strings
\* only, an int field takes integers and strings of digits.
validate_value(d, val) ==
    IF val.t = "null" THEN (IF d.optional THEN JNull ELSE Invalid)
    ELSE IF d.ty = "string" THEN (IF val.t = "string" THEN val ELSE Invalid)
    ELSE IF val.t = "integer" THEN val
    ELSE IF val.t = "string" /\ IsDigits(val.v) THEN [t |-> "integer", v |-> val.v]
    ELSE Invalid

\* A field whose key the object does not hold takes its default, and is an
\* error ("Field required") without one.
FieldAbsentStrict(d) == Invalid
FieldAbsent(d) == IF d.default THEN JNull ELSE Invalid

validate_field(d, doc) ==
    IF d.name \in DOMAIN doc THEN validate_value(d, doc[d.name]) ELSE FieldAbsent(d)

ValidationError == [raised |-> TRUE, t |-> "ValidationError", fields |-> <<>>]
\* model_class.model_validate(obj): keys that name no field are ignored.
model_validate(m, obj) ==
    IF obj.t # "object" THEN ValidationError
    ELSE IF \E i \in DOMAIN m : validate_field(m[i], obj.o).t = "error"
    THEN ValidationError
    ELSE [raised |-> FALSE, t |-> "model",
          fields |-> [n \in {m[i].name : i \in DOMAIN m} |->
                         validate_field(m[CHOOSE i \in DOMAIN m : m[i].name = n], obj.o)]]

get_model_from_json(content, m) ==
    LET parsed_json == get_json(content)
    IN IF parsed_json.raised
       THEN [raised |-> TRUE, t |-> parsed_json.t, fields |-> <<>>]
       ELSE model_validate(m, parsed_json)

ApplyGetModelFromJson ==
    /\ Idle
    /\ \E m \in RoundTripSchemas :
          \E doc \in {d \in Docs : Cardinality(DOMAIN d) <= MaxFields} :
             call' = [fn |-> "get_model_from_json",
                      arg |-> [doc |-> doc, content |-> Wrap("bare", "json", "dq", doc),
                               model |-> m],
                      out |-> get_model_from_json(Wrap("bare", "json", "dq", doc), m)]
    /\ UNCHANGED pipeline

\* ---- the message of classify_text
Prompts    == {"prompt one", "prompt two"}
MediaItems == {"data:image/png;base64,AA", "data:image/png;base64,BB"}
\* media_data: None, or a list of data URLs.
NoMedia       == [given |-> FALSE, items |-> <<>>]
MediaList(xs) == [given |-> TRUE, items |-> xs]
MediaArgs ==
    {NoMedia} \cup {MediaList(xs) : xs \in UNION {[1..n -> MediaItems] : n \in 0..MaxMedia}}

TextPart(prompt) == [type |-> "text", text |-> prompt, url |-> ""]
ImagePart(item)  == [type |-> "image_url", text |-> "", url |-> item]
\* Lines 55-62: the text part, then content.append(...) for each media item.
PartsReversed(prompt, items) ==
    <<TextPart(prompt)>> \o [i \in DOMAIN items |-> ImagePart(items[Len(items) + 1 - i])]
Parts(prompt, items) ==
    <<TextPart(prompt)>> \o [i \in DOMAIN items |-> ImagePart(items[i])]

\* Lines 53-67 of classify_text: the messages handed to acompletion.
build_messages(prompt, media_data) ==
    IF media_data.given /\ Len(media_data.items) > 0
    THEN <<[role |-> "user", kind |-> "parts", text |-> "",
            parts |-> Parts(prompt, media_data.items)]>>
    ELSE <<[role |-> "user", kind |-> "text", text |-> prompt, parts |-> <<>>]>>

\* Line 105 of process_single_input: media_data if media_data else None.
media_argument(items) == IF items # <<>> THEN MediaList(items) ELSE NoMedia

ApplyBuildMessages ==
    /\ Idle
    /\ \E prompt \in Prompts, media_data \in MediaArgs :
          call' = [fn |-> "build_messages",
                   arg |-> [prompt |-> prompt, media_data |-> media_data],
                   out |-> build_messages(prompt, media_data)]
    /\ UNCHANGED pipeline

\* ---- the prompt and the attachments of process_single_input
\* A record type with two binary columns, and its records: a field value is
\* text, bytes or None.
MediaModel ==
    <<[name |-> "title", required |-> TRUE], [name |-> "image", required |-> FALSE],
      [name |-> "thumb", required |-> FALSE]>>
TextValue(v)  == [kind |-> "text", v |-> v]
BytesValue(v) == [kind |-> "bytes", v |-> v]
NoneValue     == [kind |-> "none", v |-> ""]
MediaRecords ==
    [title : {TextValue("hello")},
     image : {BytesValue("AA"), NoneValue},
     thumb : {BytesValue("BB"), NoneValue}]
RenderTexts ==
    UNION {[1..n -> {TextSeg, Tok("title"), Tok("image"), Tok("thumb")}] :
              n \in 0..MaxTemplateLen}

\* str.format writes str(value) for a placeholder: the text itself, "None",
\* and for bytes the literal b'...' of the data.
Shown(value) ==
    IF value.kind = "bytes" THEN [kind |-> "bytes_literal", v |-> value.v]
    ELSE IF value.kind = "none" THEN [kind |-> "text", v |-> "None"]
    ELSE [kind |-> "text", v |-> value.v]

\* Lines 91-92: prompt_template.format(**format_args).
render(text, record) ==
    [i \in DOMAIN text |->
        IF text[i].token THEN Shown(record[text[i].name])
        ELSE [kind |-> "literal", v |-> ""]]

\* Lines 99-100: the data URL of a bytes value; the field name has no file
\* extension, so the MIME type is the fallback.
DataUrl(value) == [mime |-> "application/octet-stream", base64 |-> value.v]

\* Lines 95-101: one data URL per bytes value of the record, in field order.
encode_media(record, model) ==
    LET IsBytes(f) == record[f.name].kind = "bytes"
        fields     == SeqFilter(model, IsBytes)
    IN [i \in DOMAIN fields |-> DataUrl(record[fields[i].name])]

\* Lines 90-105 of process_single_input: what classify_text is called with.
prepare_call(text, record, model) ==
    IF get_placeholders_of(text, model).raised
    THEN [raised |-> TRUE, prompt |-> <<>>, media_data |-> NoMedia]
    ELSE [raised |-> FALSE, prompt |-> render(text, record),
          media_data |-> media_argument(encode_media(record, model))]

ApplyPrepareCall ==
    /\ Idle
    /\ \E text \in RenderTexts, record \in MediaRecords :
          call' = [fn |-> "prepare_call", arg |-> [text |-> text, record |-> record],
                   out |-> prepare_call(text, record, MediaModel)]
    /\ UNCHANGED pipeline

\* ---- one unit on the content the provider returned
\* ClassificationResponse as a result schema: the fields of Response, then
\* the primary key and the foreign key, both Optional with default None.
ResponseModel ==
    <<[name |-> "score", ty |-> "integer", optional |-> FALSE, default |-> FALSE],
      [name |-> "reason", ty |-> "string", optional |-> FALSE, default |-> FALSE],
      [name |-> "id", ty |-> "integer", optional |-> TRUE, default |-> TRUE],
      [name |-> "input_id", ty |-> "integer", optional |-> TRUE, default |-> TRUE]>>

NoneResult == [raised |-> FALSE, t |-> "None", fields |-> <<>>]
\* "if result:" a model instance is truthy, None is not.
TruthyAlways(result) == TRUE
Truthy(result) == result.t = "model"

\* The body of classify_text once the provider has returned content:
\* line 74 parses it, the except of line 75 turns an exception into None.
BodyResult(content, m) ==
    LET parsed == get_model_from_json(content, m)
    IN IF ~parsed.raised THEN [kind |-> "return", val |-> parsed]
       ELSE IF Caught(parsed.t) THEN [kind |-> "return", val |-> NoneResult]
       ELSE [kind |-> "raise", val |-> parsed.t]

\* classify_text under @retry, the provider returning the same content on
\* every attempt: the result and the number of provider attempts.
RECURSIVE classify_text_from(_, _, _)
classify_text_from(content, m, n) ==
    LET d == RetryDecision(BodyResult(content, m), n)
    IN IF d.kind = "retry" THEN classify_text_from(content, m, n + 1)
       ELSE [kind |-> d.kind, val |-> d.val, attempts |-> n]

ContentForms == {"bare", "fence", "fence_open", "prose"}

\* process_single_input for a stored record, from the provider's content to
\* its end (lines 105-120).
ClassifyContent ==
    /\ Idle
    /\ \E id \in inputs, form \in ContentForms :
          \E doc \in {d \in Docs : Cardinality(DOMAIN d) <= MaxFields} :
             LET content == Wrap(form, "json", "dq", doc)
                 res     == classify_text_from(content, ResponseModel, 1)
             IN /\ call' = [fn |-> "process_single_input",
                            arg |-> [id |-> id, form |-> form, doc |-> doc,
                                     content |-> content, before |-> responses],
                            out |-> res]
                /\ responses' =
                       IF res.kind = "return" /\ Truthy(res.val)
                       THEN Persist(responses, id, res.val.fields)
                       ELSE responses
    /\ UNCHANGED <<inputs, template, limit, phase, mode, runs, task, escaped, first, session>>

InitFunctions == Init /\ template = <<"body", "title", "user_id">> /\ limit = DefaultLimit

NextFunctions ==
    \/ ApplyGetPlaceholders
    \/ ApplyGetGeminiSchema
    \/ ApplyGetJson
    \/ ApplyGetModelFromJson
    \/ ApplyBuildMessages
    \/ ApplyPrepareCall
    \/ Return

SpecFunctions == InitFunctions /\ [][NextFunctions]_vars

\* One unit after the other, each on content the provider returned.
NextContent ==
    \/ ClassifyContent
    \/ Return

SpecContent == InitFunctions /\ [][NextContent]_vars

\* --------------------------------------------------------- download_data
\* A downloader class, by the methods it defines itself; the other methods
\* are the defaults of Downloader (get_records and get_record_ids return [],
\* download_record returns None).  get_record is the per-record method the
\* docstring of main.py and the tests name.
DownloaderClasses ==
    [get_records : BOOLEAN, get_record_ids : BOOLEAN, get_record : BOOLEAN,
     download_record : BOOLEAN]

\* What the source holds: per record, what fetching it gives and whether
\* committing it succeeds.  A record is known by its place in the list.
ItemOutcomes == [fetch : {"record", "none", "raises"}, commit : {"ok", "raises"}]
ItemLists == UNION {[1..n -> ItemOutcomes] : n \in 0..MaxBatch}

\* Line 44: "get_records" in downloader.__dict__.
BulkMode(cls) == cls.get_records

\* Lines 56-59: the record itself in bulk mode, else
\* downloader.download_record(record, input_type).
FetchCall(cls) ==
    IF cls.download_record THEN "download_record" ELSE "Downloader.download_record"
Fetch(cls, item) ==
    IF BulkMode(cls) THEN "record"
    ELSE IF cls.download_record THEN item.fetch
    ELSE "none"

\* The primary key the database gives a new row.
NextId(ids) == 1 + (CHOOSE x \in ids \cup {0} : \A y \in ids \cup {0} : y <= x)

\* session.rollback() in the except of lines 68-70.
Rollback(ses) == "active"

\* After a record that raised, the loop goes on with the records left.
AbortAfterError(rest) == <<>>
ContinueAfterError(rest) == rest

\* Lines 53-70: the loop over the records, from record k on.  acc holds the
\* ids returned so far, the rows stored, the methods called and the session.
RECURSIVE download_loop(_, _, _, _)
download_loop(cls, items, k, acc) ==
    IF k > Len(items) THEN acc
    ELSE LET got    == Fetch(cls, items[k])
             called == IF BulkMode(cls) THEN acc.calls
                       ELSE Append(acc.calls, FetchCall(cls))
             rest   == ContinueAfterError(SubSeqOrEmpty(items, k + 1, Len(items)))
             tail   == [i \in 1..(k + Len(rest)) |-> IF i <= k THEN items[i] ELSE rest[i - k]]
         IN IF got = "raises"
            THEN download_loop(cls, tail, k + 1,
                               [acc EXCEPT !.calls = called,
                                           !.session = Rollback(acc.session)])
            ELSE IF got = "none"
            THEN download_loop(cls, items, k + 1, [acc EXCEPT !.calls = called])
            ELSE IF items[k].commit = "raises"
            THEN download_loop(cls, tail, k + 1,
                               [acc EXCEPT !.calls = called,
                                           !.session = Rollback(AfterFailedCommit)])
            ELSE LET id == NextId(acc.before \cup {acc.stored[i].id : i \in DOMAIN acc.stored})
                 IN download_loop(cls, items, k + 1,
                                  [acc EXCEPT !.calls = called,
                                              !.ids = Append(@, id),
                                              !.stored = Append(@, [id |-> id, source |-> k])])

\* download_data(session, [input_type], downloader).
download_data(cls, items, before, ses) ==
    LET records == IF BulkMode(cls) \/ cls.get_record_ids THEN items ELSE <<>>
        first_call == IF BulkMode(cls) THEN "get_records"
                      ELSE IF cls.get_record_ids THEN "get_record_ids"
                      ELSE "Downloader.get_record_ids"
    IN download_loop(cls, records, 1,
                     [ids |-> <<>>, stored |-> <<>>, calls |-> <<first_call>>,
                      session |-> ses, before |-> before])

DownloadData ==
    /\ Idle
    /\ Usable(session)
    /\ runs < MaxRuns
    /\ \E cls \in DownloaderClasses, items \in ItemLists :
          LET out == download_data(cls, items, inputs, session)
          IN /\ call' = [fn |-> "download_data",
                         arg |-> [downloader |-> cls, items |-> items],
                         out |-> out]
             /\ inputs' = inputs \cup {out.stored[i].id : i \in DOMAIN out.stored}
             /\ session' = out.session
    /\ runs' = runs + 1
    /\ UNCHANGED <<responses, template, limit, phase, mode, task, escaped, first>>

NextDownload ==
    \/ DownloadData
    \/ Return

SpecDownload == InitFunctions /\ [][NextDownload]_vars

TypeOK ==
    /\ inputs \subseteq Nat
    /\ phase \in {"idle", "running", "returned"}
    /\ mode \in {"gather", "sequential"}
    /\ runs \in 0..MaxRuns
    /\ \A t \in Tasks : task[t].pc \in {"new", "calling", "checked", "done"}

\* ----------------------------------------------------------------- claims
Done(t)      == task[t].pc = "done"
Succeeded(t) == Done(t) /\ task[t].cres \in Vals
InFlight     == {t \in Tasks : task[t].pc = "calling"}
Distinct     == \A t, u \in Tasks : t # u => task[t].id # task[u].id

\* C1: whatever units have run, on whatever ids and with whatever outcomes,
\* no record id has more than one ClassificationResponse row.
C1_AtMostOneResponse ==
    \A i \in RecordIds : Cardinality(RowsFor(responses, i)) <= 1

\* A second run on an id that already has a row: one unit failed, another
\* obtained a classification that differs from the stored one.
C1_Witness ==
    /\ runs = 2
    /\ \E t, u \in Tasks :
        /\ t # u /\ task[t].id = task[u].id
        /\ Succeeded(t) /\ Done(u) /\ task[u].cres = "None"
        /\ first[task[t].id] \notin {"none", task[t].cres}
        /\ RowsFor(responses, task[t].id) # {}

\* C2: once a unit has obtained a classification for an id, that id has
\* exactly one row and the row holds the first classification obtained for
\* it, also after a later unit obtained a different one.
C2_FirstResultKept ==
    \A i \in RecordIds :
        first[i] # "none" =>
            \E k \in DOMAIN responses :
                /\ RowsFor(responses, i) = {k}
                /\ responses[k].val = first[i]

C2_Witness ==
    /\ mode = "sequential"
    /\ \E t, u \in Tasks :
        /\ u = t + 1 /\ task[t].id = task[u].id
        /\ Succeeded(t) /\ Succeeded(u)
        /\ task[t].cres # task[u].cres
        /\ first[task[t].id] = task[t].cres

\* C3: a row for an id is only ever inserted in a step that starts with no
\* row for that id (the check and the insert are one step), so two units
\* that overlap on one id and both succeed leave exactly one row.
C3_OneRowForOverlappingUnits ==
    \A t, u \in Tasks :
        (mode = "gather" /\ t # u /\ task[t].id = task[u].id
            /\ Succeeded(t) /\ Succeeded(u))
        => Cardinality(RowsFor(responses, task[t].id)) = 1

C3_ConcurrentSameId ==
    [][/\ \A i \in RecordIds :
            Cardinality(RowsFor(responses', i)) > Cardinality(RowsFor(responses, i))
                => RowsFor(responses, i) = {}
       /\ C3_OneRowForOverlappingUnits']_vars

\* Units t and u of the first run overlapped on one id: t began first, u
\* finished first (the row holds u's value), and both obtained a classification.
C3_Witness ==
    /\ mode = "gather" /\ runs = 1
    /\ \E t, u \in Tasks :
        /\ t < u /\ task[t].id = task[u].id
        /\ Succeeded(t) /\ Succeeded(u)
        /\ task[t].cres # task[u].cres
        /\ \E k \in DOMAIN responses :
              /\ RowsFor(responses, task[t].id) = {k}
              /\ responses[k].val = task[u].cres

\* C4: after the join of a gather over distinct stored ids whose
\* classifications all succeeded, on storage that held no response, there is
\* exactly one row per unit, referencing the unit's record and holding the
\* value its classification returned.
C4_Case ==
    /\ phase = "returned" /\ mode = "gather" /\ runs = 1
    /\ Distinct
    /\ \A t \in Tasks : task[t].id \in inputs /\ Succeeded(t)

C4_GatherPersistsAll ==
    C4_Case =>
        /\ Len(responses) = Len(task)
        /\ \A t \in Tasks :
              \E k \in DOMAIN responses :
                  /\ RowsFor(responses, task[t].id) = {k}
                  /\ responses[k].val = task[t].cres

C4_Witness ==
    /\ C4_Case
    /\ Len(task) >= 2
    /\ \E t, u \in Tasks : task[t].cres # task[u].cres

\* C5: at every moment the provider calls in flight are at most
\* CONCURRENCY_LIMIT.
C5_InFlightBounded == Cardinality(InFlight) <= limit

\* C6: a call whose provider raises a rate-limit error twice and then
\* succeeds returns the parsed result after exactly 3 attempts.
C6_RetryThenSuccess ==
    \A t \in Tasks :
        (Done(t) /\ task[t].ended = "returned"
            /\ \E v \in Vals : task[t].script = <<RateLimit, RateLimit, v>>)
        => task[t].cres = task[t].script[3] /\ task[t].attempts = 3

\* C7: a call whose provider raises a rate-limit error on every attempt is
\* attempted exactly 3 times and then yields None.
C7_RetryExhausted ==
    \A t \in Tasks :
        (Done(t) /\ task[t].ended = "returned"
            /\ task[t].script = <<RateLimit, RateLimit, RateLimit>>)
        => task[t].cres = "None" /\ task[t].attempts = 3

\* C8: a call whose provider raises an exception that is no rate-limit error
\* returns None after exactly 1 attempt.
C8_Case(t) ==
    /\ Done(t) /\ task[t].ended = "returned"
    /\ task[t].script[1] \in Errors \ {RateLimit}

C8_NoRetryOnOtherError ==
    \A t \in Tasks : C8_Case(t) => task[t].cres = "None" /\ task[t].attempts = 1

C8_Witness == \E t \in Tasks : C8_Case(t)

\* C9: whatever the provider does, classify_text resolves to a parsed result
\* or to None; it never raises into process_single_input.
C9_NeverRaises ==
    \A t \in Tasks :
        /\ task[t].cres # "raised"
        /\ (Done(t) /\ task[t].ended = "returned") => task[t].cres \in Vals \cup {"None"}

C9_Witness ==
    \E t, u \in Tasks :
        /\ Done(t) /\ task[t].cres = "None" /\ task[t].script[1] = Malformed
        /\ Done(u) /\ task[u].script = <<RateLimit, RateLimit, RateLimit>>
        /\ task[u].cres = "None"

\* C10: when classify_inputs returns from a batch that named an id with no
\* record and whose classifications all succeeded, no exception has left it,
\* every stored id of the batch has exactly one row and the missing id none.
C10_Case ==
    /\ phase = "returned" /\ mode = "sequential"
    /\ \E t \in Tasks : task[t].id \notin inputs
    /\ \A t \in Tasks : task[t].id \in inputs => Succeeded(t)

C10_MissingIdIsolated ==
    C10_Case =>
        /\ ~escaped
        /\ \A t \in Tasks :
              IF task[t].id \in inputs
              THEN Cardinality(RowsFor(responses, task[t].id)) = 1
              ELSE RowsFor(responses, task[t].id) = {}

C10_Witness ==
    /\ C10_Case
    /\ \E t, u \in Tasks : t < u /\ task[t].id \notin inputs /\ task[u].id \in inputs

\* C11: classify_inputs given a template that get_placeholders rejects
\* raises TemplateError to its caller, after one template check for the whole
\* batch, with no provider call issued and no result persisted.
\* Every unit that loaded its record has run get_placeholders (line 90).
TemplateChecks ==
    Cardinality({t \in Tasks : task[t].pc # "new" /\ task[t].id \in inputs})

C11_Case ==
    /\ phase = "returned" /\ mode = "sequential"
    /\ get_placeholders(template).raised
    /\ \E t \in Tasks : task[t].id \in inputs

C11_TemplateErrorEscapes ==
    C11_Case =>
        /\ escaped
        /\ TemplateChecks <= 1
        /\ \A t \in Tasks : task[t].attempts = 0
        /\ responses = <<>>

\* C12: after a gathered run the number of truthy per-record results equals
\* the number of responses persisted during the run.
\* process_single_input has no return statement: every unit yields None.
ReturnValue == "None"

\* main.py line 139: sum(1 for result in results if result).
ClassifiedCount ==
    Cardinality({t \in Tasks : task[t].ended = "returned" /\ ReturnValue # "None"})

C12_CountMatchesPersisted ==
    (phase = "returned" /\ mode = "gather" /\ runs = 1 /\ ~escaped)
        => ClassifiedCount = Len(responses)

\* C13: a classify_inputs call over a finite id list returns when every
\* provider call returns; the ids are processed in submission order, one
\* after the other, and no unit waits forever on the semaphore or a backoff.
C13_InOrder ==
    \A t, u \in Tasks : (t < u /\ task[u].pc # "new") => task[t].pc = "done"

C13_BatchReturns ==
    /\ (phase = "running") ~> (phase = "returned")
    /\ [](mode = "sequential" => C13_InOrder)

C13_Witness ==
    /\ phase = "returned" /\ mode = "sequential" /\ runs = 2
    /\ \E t, u \in Tasks :
        /\ t < u
        /\ task[t].cres = "None" /\ task[t].script[1] = RateLimit
        /\ Succeeded(u)

\* ------------------------------------------ claims on get_placeholders
IsGP        == call.fn = "get_placeholders"
FieldNames(model) == {model[i].name : i \in DOMAIN model}
TokenAt(text)     == {i \in DOMAIN text : text[i].token}
UnknownAt(text, model) ==
    {i \in TokenAt(text) : text[i].name \notin FieldNames(model)}
\* The required, non-internal fields of the model that no token names.
Omitted(text, model) ==
    {i \in DOMAIN model :
        /\ model[i].required /\ model[i].name \notin {"id", "input_id", "classification_input"}
        /\ \A k \in TokenAt(text) : text[k].name # model[i].name}
Least(S) == CHOOSE x \in S : \A y \in S : x <= y

\* C14: a template with a token that names no field of the model raises
\* TemplateError naming the first such token, whatever else it holds.
C14_UnknownFieldNamed ==
    (IsGP /\ UnknownAt(call.arg.text, call.arg.model) # {}) =>
        /\ call.out.raised
        /\ call.out.col =
              call.arg.text[Least(UnknownAt(call.arg.text, call.arg.model))].name

C14_Witness ==
    /\ IsGP
    /\ Cardinality({call.arg.text[i].name :
                        i \in UnknownAt(call.arg.text, call.arg.model)}) = 2
    /\ Least(UnknownAt(call.arg.text, call.arg.model)) > 1
    /\ Omitted(call.arg.text, call.arg.model) # {}
    /\ call.out.raised

\* C15: a template whose tokens all name fields but which omits a required,
\* non-internal field raises TemplateError naming an omitted field (the first
\* one in the model's field order).
C15_Case ==
    /\ IsGP
    /\ UnknownAt(call.arg.text, call.arg.model) = {}
    /\ Omitted(call.arg.text, call.arg.model) # {}

C15_OmittedRequiredNamed ==
    C15_Case =>
        /\ call.out.raised
        /\ call.out.col =
              call.arg.model[Least(Omitted(call.arg.text, call.arg.model))].name

C15_Witness ==
    /\ C15_Case
    /\ call.arg.model = KeyedModel
    /\ TokenAt(call.arg.text) # {}
    /\ call.out.raised /\ call.out.col = "title"

\* C16: a template whose tokens all name fields and which holds every
\* required, non-internal field raises nothing and returns the token names in
\* their order of appearance, also when other fields are omitted.
C16_Case ==
    /\ IsGP
    /\ UnknownAt(call.arg.text, call.arg.model) = {}
    /\ Omitted(call.arg.text, call.arg.model) = {}

C16_ValidTemplateAccepted ==
    C16_Case =>
        /\ ~call.out.raised
        /\ Len(call.out.value) = Cardinality(TokenAt(call.arg.text))
        /\ \A i, j \in TokenAt(call.arg.text) :
              LET pos(k) == Cardinality({m \in TokenAt(call.arg.text) : m <= k})
              IN /\ call.out.value[pos(i)] = call.arg.text[i].name
                 /\ i < j => pos(i) < pos(j)

\* A token repeated, an optional field and the required primary key left out.
C16_Witness ==
    /\ C16_Case
    /\ call.arg.model = KeyedModel
    /\ Len(call.arg.text) = 3 /\ TokenAt(call.arg.text) = {1, 3}
    /\ call.arg.text[1].name = "title" /\ call.arg.text[3].name = "title"
    /\ ~call.out.raised

\* ----------------------------------------- claims on get_gemini_schema
IsGS == call.fn = "get_gemini_schema"
External(m) == SelectSeq(m, LAMBDA d : d.name \notin {"id", "input_id", "classification_input"})
PrimitiveOf(d) == IF d.ty \in {"string", "integer", "boolean"} THEN d.ty ELSE "string"
Describes(out, m) ==
    /\ ~out.raised
    /\ out.type = "object"
    /\ Len(out.properties) = Len(External(m))
    /\ \A i \in DOMAIN out.properties :
          /\ out.properties[i].name = External(m)[i].name
          /\ out.properties[i].type = PrimitiveOf(External(m)[i])
    /\ {out.required[i] : i \in DOMAIN out.required} =
          {External(m)[i].name : i \in {k \in DOMAIN External(m) : ~External(m)[k].default}}

\* C17: for every result schema get_gemini_schema returns an object
\* descriptor whose properties are the non-internal fields, each with its
\* primitive type (optional -> inner type, no recognized type -> string), and
\* whose required list is the required non-internal fields.
C17_DescriptorForEverySchema == IsGS => Describes(call.out, call.arg)

\* What does hold: the descriptor is as claimed for every schema that has no
\* non-internal optional field of an unrecognized type.
C17_OptionalOther(m) ==
    \E i \in DOMAIN External(m) : External(m)[i].optional /\ External(m)[i].ty = "other"

C17_DescriptorUnlessOptionalOther ==
    IsGS => IF C17_OptionalOther(call.arg) THEN call.out.raised
                                           ELSE Describes(call.out, call.arg)

\* -------------------------------------------------- claims on get_json
IsGJ == call.fn = "get_json"

\* C19: a JSON document yields the same parsed object given bare, wrapped in
\* a ```json fence, and wrapped in a ``` json fence (space after the
\* backticks, the word json in any case).
C19_Case ==
    /\ IsGJ
    /\ call.arg.form \in {"bare", "fence", "fence_space"}
    /\ call.arg.word \in {"json", "JSON", "Json"}

C19_SameObjectInEveryForm ==
    C19_Case =>
        /\ ~call.out.raised
        /\ call.out.t = "object"
        /\ call.out.o = call.arg.doc

C19_Witness ==
    /\ C19_Case
    /\ call.arg.form = "fence_space" /\ call.arg.word = "JSON"
    /\ DOMAIN call.arg.doc = {"score", "reason"}
    /\ ~call.out.raised
    /\ call.out.o = call.arg.doc

\* ------------------------------------------ claims on get_model_from_json
IsMJ == call.fn = "get_model_from_json"
RequiredAt(m) == {i \in DOMAIN m : ~m[i].default}
\* The document holds exactly the required fields, each with a value of the
\* field's declared type.
ExactlyRequired(doc, m) ==
    /\ DOMAIN doc = {m[i].name : i \in RequiredAt(m)}
    /\ \A i \in RequiredAt(m) :
          \/ doc[m[i].name].t = m[i].ty
          \/ doc[m[i].name].t = "null" /\ m[i].optional

\* C18: for a schema of string, integer and optional-of-each fields, a JSON
\* document holding exactly the required fields (with values of the declared
\* types) gives, without error, a result whose required fields equal the
\* input values and whose omitted optional fields are null.
C18_Case == IsMJ /\ ExactlyRequired(call.arg.doc, call.arg.model)

C18_RoundTrip ==
    C18_Case =>
        /\ ~call.out.raised
        /\ \A i \in DOMAIN call.arg.model :
              LET n == call.arg.model[i].name
              IN IF i \in RequiredAt(call.arg.model)
                 THEN call.out.fields[n] = call.arg.doc[n]
                 ELSE call.out.fields[n].t = "null"

\* A required string field given, an optional integer field omitted.
C18_Witness ==
    /\ C18_Case
    /\ Len(call.arg.model) = 2
    /\ \E i, j \in DOMAIN call.arg.model :
          /\ i \in RequiredAt(call.arg.model) /\ call.arg.model[i].ty = "string"
          /\ call.arg.doc[call.arg.model[i].name].t = "string"
          /\ j \notin RequiredAt(call.arg.model) /\ call.arg.model[j].ty = "integer"
    /\ ~call.out.raised

\* ------------------------------------------------- claims on the delete
\* C20: deleting a ClassificationInput removes its ClassificationResponse:
\* right after the delete no response row references the deleted record.
C20_DeleteCascades ==
    [][\A i \in inputs \ inputs' : RowsFor(responses', i) = {}]_vars

\* No row ever references a record that is not stored.
C20_NoOrphan ==
    \A k \in DOMAIN responses : responses[k].input_id \in inputs

\* A record whose result had been persisted is gone with its response, and
\* the response of a record that stays is still there.
C20_Witness ==
    /\ \E i \in StoredIds \ inputs : first[i] # "none" /\ RowsFor(responses, i) = {}
    /\ \E j \in inputs : RowsFor(responses, j) # {}

\* ------------------------------------------- claims on a failing commit
CommitFailed(t) == task[t].commit = "raised"

\* C23: when the commit of one record's result raises, a later record of
\* the same batch is still processed: its unit does not fail on the session,
\* and if its classification succeeds (and its own commit does not raise)
\* its ClassificationResponse is persisted.
C23_LaterRecordsPersisted ==
    \A t, u \in Tasks :
        (/\ t < u /\ CommitFailed(t) /\ Done(u)
         /\ task[u].id \in inputs /\ ~get_placeholders(template).raised) =>
            /\ task[u].ended = "returned"
            /\ (task[u].cres \in Vals /\ ~CommitFailed(u)) =>
                   RowsFor(responses, task[u].id) # {}

\* What the code does instead: once a commit has raised, every later unit
\* of the batch, and of later batches on the same session, raises on its
\* first statement and persists nothing.
C23_SessionStaysBroken ==
    [][~Usable(session) => (responses' = responses /\ ~Usable(session'))]_vars

\* ------------------------------------- claims on exceptions of a unit
\* C22: process_single_input absorbs an exception raised at any of its
\* steps, the load of an id that does not exist and the rendering included:
\* no unit ends by raising, and the join of asyncio.gather does not raise.
C22_UnitAbsorbsEveryException ==
    /\ \A t \in Tasks : task[t].ended # "raised"
    /\ mode = "gather" => ~escaped

\* -------------------------------------------- claims on the slot
\* C24: the slot of a classify_text call is held while its provider call is
\* pending and is free once classify_text has resolved, whether the provider
\* returned content (well-formed or not) or raised.
C24_SlotHeldOnlyDuringCall ==
    \A t \in Tasks :
        /\ task[t].pc = "calling" => task[t].sem = limit - 1
        /\ (Done(t) /\ task[t].attempts > 0) => task[t].sem = limit

\* One unit whose provider call raised and one whose content did not parse
\* have both resolved with their slots free.
C24_Witness ==
    \E t, u \in Tasks :
        /\ Done(t) /\ task[t].attempts > 0 /\ task[t].script[1] = "Exception"
        /\ Done(u) /\ task[u].attempts > 0 /\ task[u].script[1] = Malformed
        /\ task[t].sem = limit /\ task[u].sem = limit

\* ------------------------------------------------ claims on the frame
\* C28: no step of process_single_input or classify_inputs, whatever its
\* outcome, creates or deletes a ClassificationInput or changes or deletes a
\* ClassificationResponse that exists: at most one new ClassificationResponse
\* is inserted.
C28_OnlyInsertsResponses ==
    [][/\ inputs' = inputs
       /\ Len(responses') \in {Len(responses), Len(responses) + 1}
       /\ \A k \in DOMAIN responses : responses'[k] = responses[k]]_vars

\* A response persisted earlier is still there after a later unit, for
\* another record, ended on a commit that raised.
C28_Witness ==
    /\ \E t \in Tasks : CommitFailed(t) /\ RowsFor(responses, task[t].id) = {}
    /\ Len(responses) = 1
    /\ inputs = StoredIds

\* ------------------------------------------- claims on quoted content
\* C27: without a json fence get_json removes exactly one layer of
\* surrounding quotes: a document wrapped in two layers of quotes keeps its
\* inner layer and is not parsed as the bare document.
C27_OneQuoteLayerRemoved ==
    (IsGJ /\ call.arg.form = "quoted_twice") =>
        ~(~call.out.raised /\ call.out.t = "object" /\ call.out.o = call.arg.doc)

\* What the code does: every layer of quotes goes, so a document in one
\* layer and in two layers of quotes parses to the same object.
C27_EveryQuoteLayerRemoved ==
    (IsGJ /\ call.arg.form \in {"quoted", "quoted_twice"}) =>
        (~call.out.raised /\ call.out.t = "object" /\ call.out.o = call.arg.doc)

\* ------------------------------------------------ claims on the message
IsBM == call.fn = "build_messages"

\* C25: classify_text builds one user message; with a non-empty attachment
\* list its content is a text part with the prompt followed by one image_url
\* part per attachment, in attachment order; with an empty or absent list
\* its content is the plain prompt text.
C25_OneUserMessage ==
    IsBM =>
        LET msgs  == call.out
            items == call.arg.media_data.items
        IN /\ Len(msgs) = 1
           /\ msgs[1].role = "user"
           /\ IF items # <<>>
              THEN /\ msgs[1].kind = "parts"
                   /\ Len(msgs[1].parts) = 1 + Len(items)
                   /\ msgs[1].parts[1].type = "text"
                   /\ msgs[1].parts[1].text = call.arg.prompt
                   /\ \A i \in DOMAIN items :
                         /\ msgs[1].parts[i + 1].type = "image_url"
                         /\ msgs[1].parts[i + 1].url = items[i]
              ELSE /\ msgs[1].kind = "text"
                   /\ msgs[1].text = call.arg.prompt

\* Two different attachments.
C25_Witness ==
    /\ IsBM
    /\ Len(call.arg.media_data.items) = 2
    /\ call.arg.media_data.items[1] # call.arg.media_data.items[2]
    /\ Len(call.out[1].parts) = 3

\* ----------------------------------------------- claims on binary fields
IsPC == call.fn = "prepare_call"
BinaryFields(record) == {f \in DOMAIN record : record[f].kind = "bytes"}
AttachmentsOnce(out, record) ==
    /\ Len(out.media_data.items) = Cardinality(BinaryFields(record))
    /\ \A f \in BinaryFields(record) :
          Cardinality({i \in DOMAIN out.media_data.items :
                          out.media_data.items[i].base64 = record[f].v}) = 1

\* C26: for a record and a template that validation accepts, no binary field
\* of the record appears in the prompt text, and each binary field is passed
\* exactly once as a base64 data URL, also when the template names it.
C26_BinaryNeverInPrompt ==
    (IsPC /\ ~call.out.raised) =>
        /\ \A i \in DOMAIN call.out.prompt : call.out.prompt[i].kind # "bytes_literal"
        /\ AttachmentsOnce(call.out, call.arg.record)

\* What does hold: each binary field is attached exactly once, and it stays
\* out of the prompt text when the template does not name it.
C26_AttachedOnceAndInlineOnlyIfNamed ==
    (IsPC /\ ~call.out.raised) =>
        /\ AttachmentsOnce(call.out, call.arg.record)
        /\ \A i \in DOMAIN call.out.prompt :
              call.out.prompt[i].kind = "bytes_literal" =>
                  /\ call.arg.text[i].token
                  /\ call.arg.text[i].name \in BinaryFields(call.arg.record)

\* ------------------------------------- claims on content that is rejected
IsPSI == call.fn = "process_single_input"
NotJson(form) == form \in {"fence_open", "prose"}
MissesRequired(doc, m) ==
    \E i \in DOMAIN m : ~m[i].default /\ m[i].name \notin DOMAIN doc
NotCoercible(doc, m) ==
    \E i \in DOMAIN m :
        /\ m[i].name \in DOMAIN doc
        /\ LET v == doc[m[i].name]
           IN \/ v.t = "null" /\ ~m[i].optional
              \/ m[i].ty = "integer" /\ v.t = "string" /\ v.v # "7"
              \/ m[i].ty = "string" /\ v.t = "integer"

\* C21: when the provider's content is not valid JSON after unwrapping, or
\* misses a required field, or holds a value that cannot be coerced to its
\* declared type, classify_text returns None after that one provider attempt
\* and process_single_input leaves the stored results unchanged.
C21_Case ==
    /\ IsPSI
    /\ \/ NotJson(call.arg.form)
       \/ MissesRequired(call.arg.doc, ResponseModel)
       \/ NotCoercible(call.arg.doc, ResponseModel)

C21_RejectedContentNotPersisted ==
    C21_Case =>
        /\ call.out.kind = "return"
        /\ call.out.val.t = "None"
        /\ call.out.attempts = 1
        /\ responses = call.arg.before

\* Valid JSON with both required fields, one of a type that cannot be
\* coerced, for a record that has no response yet while another has one.
C21_Witness ==
    /\ C21_Case
    /\ call.arg.form = "bare"
    /\ ~MissesRequired(call.arg.doc, ResponseModel)
    /\ NotCoercible(call.arg.doc, ResponseModel)
    /\ RowsFor(responses, call.arg.id) = {}
    /\ Len(responses) = 1
    /\ call.out.val.t = "None"

\* ------------------------------------------------ claims on download_data
IsDD == call.fn = "download_data"
\* The places of the records that were fetched and committed, for a
\* downloader whose records reach the loop.
Committed(cls, items) ==
    {k \in DOMAIN items :
        /\ items[k].commit = "ok"
        /\ cls.get_records \/ items[k].fetch = "record"}
Increasing(seq) == \A i, j \in DOMAIN seq : i < j => seq[i] < seq[j]

\* C29: in download_data a record whose fetch or commit raises is rolled
\* back and skipped, the records after it are still processed, and the list
\* returned holds exactly the database ids of the committed records, in
\* processing order: the new rows are exactly the records downloaded and
\* committed.
C29_Case ==
    /\ IsDD
    /\ \/ call.arg.downloader.get_records
       \/ call.arg.downloader.get_record_ids /\ call.arg.downloader.download_record

Documented(cls) ==
    ~cls.get_records /\ cls.get_record_ids /\ cls.get_record /\ ~cls.download_record
CallsOf(out, method) == {i \in DOMAIN out.calls : out.calls[i] = method}

\* C30: for a downloader that overrides get_record_ids and get_record and
\* not get_records, download_data fetches every enumerated id through the
\* get_record override and returns one database id per id whose fetch gave
\* a record (and was committed); a downloader that defines get_records is
\* used in bulk mode and none of its per-record methods is called.
C30_PerRecordStrategyUsed ==
    IsDD =>
        /\ Documented(call.arg.downloader) =>
              /\ Cardinality(CallsOf(call.out, "get_record")) = Len(call.arg.items)
              /\ Len(call.out.ids) =
                    Cardinality({k \in DOMAIN call.arg.items :
                                    /\ call.arg.items[k].fetch = "record"
                                    /\ call.arg.items[k].commit = "ok"})
        /\ call.arg.downloader.get_records => call.out.calls = <<"get_records">>

\* What the code does: the override get_record is never called; the ids are
\* fetched through download_record, which for the documented downloader is
\* the default that returns None, so nothing is stored or returned.  The
\* bulk half of the claim holds.
C30_GetRecordNeverCalled ==
    IsDD =>
        /\ CallsOf(call.out, "get_record") = {}
        /\ Documented(call.arg.downloader) =>
              /\ call.out.ids = <<>>
              /\ Cardinality(CallsOf(call.out, "Downloader.download_record")) =
                    Len(call.arg.items)
        /\ call.arg.downloader.get_records => call.out.calls = <<"get_records">>

====
